---- MODULE Spec2Model ----
(***************************************************************************)
(* OpenChain: recommendation core (scale score, similarity, candidate     *)
(* pool, stratification), the backend recommendation endpoint, the        *)
(* Next.js proxy routes and the search page.                              *)
(*                                                                         *)
(* Scores are fixed-point numbers: the real value v is held as the        *)
(* integer v * ONE.  Metric counts are of the form 10^k - 1, so that      *)
(* ln(x + 1) / ln(10^b) is the exact fraction k / b.                      *)
(***************************************************************************)
EXTENDS Integers, Sequences, FiniteSets, TLC

VARIABLES
    op,          \* scorer bench: which scorer was applied ("none" before)
    argA,        \* scorer bench: the entity scored / the anchor of the pair
    argB,        \* scorer bench: the candidate of the pair
    profile,     \* scorer bench: the repository-repository weight profile
    result,      \* scorer bench: the value the scorer returned
    pc,          \* where the request is: "idle", "search", "proxy", "backend",
                 \* "anchor", "tiers", "assemble", "reply", "done"
    req,         \* the request: its entry point and its parameters
    calls,       \* the external calls issued for the request
    rejectedBy,  \* the handler whose validation rejected the request
    anchorFetch, \* the outcome of the anchor fetch
    tierStatus,  \* per source tier: "idle", "pending", "ok", "failed"
    subPool,     \* per source tier: the candidate ids it returned
    pool,        \* the de-duplicated candidate pool (CandidateRef sequence)
    steps,       \* the pipeline stages executed for the request
    outcome,     \* what recommend() returned to the endpoint
    response,    \* the HTTP response of the endpoint or of the proxy route
    loading,     \* page state
    error,       \* page state
    graphData,   \* page state
    cancelled,   \* the caller of the request has disconnected
    timer,       \* the 30 s abort timer of a proxy route: "none", "armed",
                 \* "fired", "cleared"
    selectedNode, \* page state: the node clicked last, "none" for null
    started,     \* page: how many searches the page has started
    searches,    \* page: the searches whose fetchRecommendations is unanswered
    graphOf,     \* page: the search whose result graphData holds, 0 for none
    aiAnalysis,  \* graph state: the analysis text, by the click it answers
    isLoading,   \* graph state
    clicks,      \* graph: how many nodes have been clicked
    analyses     \* graph: the analysis requests that are unanswered

scoreVars == <<op, argA, argB, profile, result>>

pipeVars ==
    <<pc, req, calls, rejectedBy, anchorFetch, tierStatus, subPool, pool,
      steps, outcome, response>>

ctlVars == <<cancelled, timer>>

pageVars == <<loading, error, graphData>>

viewVars ==
    <<selectedNode, started, searches, graphOf, aiAnalysis, isLoading, clicks,
      analyses>>

vars ==
    <<op, argA, argB, profile, result, pc, req, calls, rejectedBy, anchorFetch,
      tierStatus, subPool, pool, steps, outcome, response, loading, error,
      graphData, cancelled, timer, selectedNode, started, searches, graphOf,
      aiAnalysis, isLoading, clicks, analyses>>

----------------------------------------------------------------------------
(* Bounds                                                                  *)

\* metric counts range over 10^k - 1 for k in 0..MaxExp
MaxExp == 5
\* number of distinct topic tags in the universe
MaxTopics == 2
\* number of distinct contributors in the universe
MaxContributors == 1
\* longest name a request carries
MaxNameLen == 5
\* most candidates one source tier returns
MaxTierLen == 2
\* scores are sampled every 1/TierSteps of a point
TierSteps == 2
\* the longest recommendation list the endpoint is given
MaxRecs == 12
\* the most candidates one source tier returns
MaxFetched == 25
\* the most scored candidates the stratifier is given
MaxScored == 21
\* the most searches one page session starts
MaxSearches == 3
\* the most node clicks of one page session
MaxClicks == 3

----------------------------------------------------------------------------
(* Fixed-point arithmetic                                                  *)

ONE == 21 * 10000

Min(a, b) == IF a <= b THEN a ELSE b
Max(a, b) == IF a >= b THEN a ELSE b
Abs(a) == IF a >= 0 THEN a ELSE 0 - a

RECURSIVE Pow10(_)
Pow10(k) == IF k = 0 THEN 1 ELSE 10 * Pow10(k - 1)

RECURSIVE Log10(_)
\* floor(log10(n)) for n >= 1; exact when n is a power of ten
Log10(n) == IF n < 10 THEN 0 ELSE 1 + Log10(n \div 10)

\* ln(x + 1) / ln(10^baseExp), unclamped
LogRatio(x, baseExp) == (Log10(x + 1) * ONE) \div baseExp

\* a buggy variant: the min(1, .) of the documented formula is forgotten
LogNormUnclamped(x, baseExp) == LogRatio(x, baseExp)

\* min(1, ln(x + 1) / ln(10^baseExp))
LogNorm(x, baseExp) == Min(ONE, LogRatio(x, baseExp))

----------------------------------------------------------------------------
(* Entities: {id, kind, metrics}.  An absent count is 0; an absent         *)
(* OpenRank is hasOpenRank = FALSE.  openRank10 is the OpenRank in tenths. *)
(* langs is the per-language code-share vector, mainLang the index of the  *)
(* repository's primary language (0: none), lastUpdated is in units of     *)
(* 73 days (a fifth of a year), active says whether the last update falls  *)
(* in the current/prior activity window.                                   *)

Entity(k, hasOR, or10, fl, fg, pr, rq, act, st, fk, wt, sz, lv, ml, tp, ct, lu, ac) ==
    [kind |-> k, hasOpenRank |-> hasOR, openRank10 |-> or10,
     followers |-> fl, following |-> fg, publicRepos |-> pr,
     repoQuality |-> rq, activity |-> act,
     stars |-> st, forks |-> fk, watchers |-> wt, size |-> sz,
     langs |-> lv, mainLang |-> ml, topics |-> tp, contributors |-> ct,
     lastUpdated |-> lu, active |-> ac]

NoLangs == <<0, 0>>

NoEntity == Entity("none", FALSE, 0, 0, 0, 0, 0, 0, 0, 0, 0, 0, NoLangs, 0, {}, {}, 0, FALSE)

\* counts 10^k - 1
Counts == {Pow10(k) - 1 : k \in 0..MaxExp}
\* a coarser set for pairs of entities: none, below every base, above every base
PairCounts == {0, Pow10(2) - 1, Pow10(MaxExp) - 1}
OpenRank10s == {0, 5, 10, 25}
SubScores == {0, ONE \div 2, ONE}
LangVectors == {NoLangs, <<5, 0>>, <<3, 4>>}
TopicSets == SUBSET (1..MaxTopics)
ContributorSets == SUBSET (1..MaxContributors)
\* repository sizes
Sizes == {0, Pow10(1) - 1, Pow10(2) - 1}
\* last-update times, in fifths of a year
UpdateTimes == {0, 3}
MainLangs == {0, 1, 2}

----------------------------------------------------------------------------
(* ScaleScorer (spec 4.1)                                                  *)

\* OR_score = min(1.0, OR/10); 0 if absent
OrScore(e) == IF e.hasOpenRank THEN Min(ONE, (e.openRank10 * ONE) \div 100) ELSE 0

\* Score = OR_score x 0.4 + SI x 0.3 + RQ x 0.15 + AS x 0.15
UserScore01(e) ==
    (40 * OrScore(e) + 30 * LogNorm(e.followers, 4)
        + 15 * e.repoQuality + 15 * e.activity) \div 100

\* the user's score01 mapped to 20 + score01 * 20
UserScale(e) == 20 * ONE + 20 * UserScore01(e)

\* star x 0.5 + fork x 0.3 + watcher x 0.2
RepoTraditionalScore01(e) ==
    (50 * LogNorm(e.stars, 4) + 30 * LogNorm(e.forks, 3)
        + 20 * LogNorm(e.watchers, 3)) \div 100

\* base = 20 + OpenRank x 20, plus the star and fork bonuses
RepoOpenRankRaw(e) ==
    20 * ONE + 20 * ((e.openRank10 * ONE) \div 10)
        + 20 * ((20 * LogNorm(e.stars, 4)) \div 100)
        + 20 * ((10 * LogNorm(e.forks, 3)) \div 100)

\* a buggy variant: the cap at 40 is forgotten
RepoBaseScoreNoCap(e) ==
    IF e.hasOpenRank THEN RepoOpenRankRaw(e)
    ELSE 20 * ONE + 20 * RepoTraditionalScore01(e)

\* the repository score before the recency adjustment
RepoBaseScore(e) ==
    IF e.hasOpenRank THEN Min(40 * ONE, RepoOpenRankRaw(e))
    ELSE 20 * ONE + 20 * RepoTraditionalScore01(e)

\* 1.0 if updated within the activity window, else 0.5 (in percent)
RecencyPercent(e) == IF e.active THEN 100 ELSE 50

\* a buggy variant: the multiplier scales the whole score, floor included
ApplyRecencyWhole(score, e) == (score * RecencyPercent(e)) \div 100

\* the multiplier scales the variable (non-floor) portion of the score
ApplyRecency(score, e) ==
    20 * ONE + ((score - 20 * ONE) * RecencyPercent(e)) \div 100

RepoScale(e) == ApplyRecency(RepoBaseScore(e), e)

ScaleScorer(e) == IF e.kind = "user" THEN UserScale(e) ELSE RepoScale(e)

\* the user grading table: [20,25) [25,30) [30,35) [35,40]
UserTier(score) ==
    IF 20 * ONE <= score /\ score < 25 * ONE THEN "novice"
    ELSE IF 25 * ONE <= score /\ score < 30 * ONE THEN "intermediate"
    ELSE IF 30 * ONE <= score /\ score < 35 * ONE THEN "advanced"
    ELSE IF 35 * ONE <= score /\ score <= 40 * ONE THEN "expert"
    ELSE "none"

\* the repository size table: 20-25, 26-30, 31-35, 36-40
RepoTier(score) ==
    IF 20 * ONE <= score /\ score <= 25 * ONE THEN "novice"
    ELSE IF 26 * ONE <= score /\ score <= 30 * ONE THEN "intermediate"
    ELSE IF 31 * ONE <= score /\ score <= 35 * ONE THEN "advanced"
    ELSE IF 36 * ONE <= score /\ score <= 40 * ONE THEN "expert"
    ELSE "none"

TierOf(kind, score) == IF kind = "user" THEN UserTier(score) ELSE RepoTier(score)

\* the order of the tiers; a score outside every range has no tier
TierLevel(t) ==
    CASE t = "novice" -> 1
      [] t = "intermediate" -> 2
      [] t = "advanced" -> 3
      [] t = "expert" -> 4
      [] OTHER -> 0

\* the scores of [20,40] in steps of 1/TierSteps
ScoreGrid == {20 * ONE + k * (ONE \div TierSteps) : k \in 0..(20 * TierSteps)}

ScaleUsers ==
    {Entity("user", h, o, f, 0, 0, rq, act, 0, 0, 0, 0, NoLangs, 0, {}, {}, 0, FALSE) :
        h \in BOOLEAN, o \in OpenRank10s, f \in Counts, rq \in SubScores, act \in SubScores}

ScaleRepos ==
    {Entity("repo", h, o, 0, 0, 0, 0, 0, st, fk, wt, 0, NoLangs, 0, {}, {}, 0, ac) :
        h \in BOOLEAN, o \in OpenRank10s, st \in Counts, fk \in Counts,
        wt \in {0, Pow10(MaxExp) - 1}, ac \in BOOLEAN}

----------------------------------------------------------------------------
(* SimilarityScorer (spec 4.2)                                             *)

RECURSIVE DotFrom(_, _, _)
DotFrom(v, w, i) == IF i > Len(v) THEN 0 ELSE v[i] * w[i] + DotFrom(v, w, i + 1)

Dot(v, w) == DotFrom(v, w, 1)

\* the integer square root; the language vectors used have integer norms
Isqrt(n) == CHOOSE r \in 0..n : r * r <= n /\ (r + 1) * (r + 1) > n

Norm(v) == Isqrt(Dot(v, v))

\* a buggy variant: a zero vector counts as parallel to every vector
CosineZeroIsOne(v, w) ==
    IF Norm(v) * Norm(w) = 0 THEN ONE
    ELSE (Dot(v, w) * ONE) \div (Norm(v) * Norm(w))

\* cos(v1, v2) = v1.v2 / (||v1|| ||v2||); 0 when a vector is zero
Cosine(v, w) ==
    IF Norm(v) * Norm(w) = 0 THEN 0
    ELSE (Dot(v, w) * ONE) \div (Norm(v) * Norm(w))

\* a buggy variant: two empty sets count as identical
JaccardEmptyIsOne(A, B) ==
    IF A \cup B = {} THEN ONE
    ELSE (Cardinality(A \cap B) * ONE) \div Cardinality(A \cup B)

\* |A n B| / |A u B|; 0 when the union is empty
Jaccard(A, B) ==
    IF A \cup B = {} THEN 0
    ELSE (Cardinality(A \cap B) * ONE) \div Cardinality(A \cup B)

\* a buggy variant: the difference is not clamped before it is subtracted
ActivitySimilarityUnclamped(a, c) ==
    ONE - (40 * Abs(LogRatio(a.followers, 4) - LogRatio(c.followers, 4))
            + 30 * Abs(LogRatio(a.following, 3) - LogRatio(c.following, 3))
            + 30 * Abs(LogRatio(a.publicRepos, 2) - LogRatio(c.publicRepos, 2))) \div 100

\* diff = 0.4|f1 - f2| + 0.3|g1 - g2| + 0.3|r1 - r2|, AS = 1 - min(diff, 1)
ActivitySimilarity(a, c) ==
    ONE - Min(ONE,
        (40 * Abs(LogRatio(a.followers, 4) - LogRatio(c.followers, 4))
            + 30 * Abs(LogRatio(a.following, 3) - LogRatio(c.following, 3))
            + 30 * Abs(LogRatio(a.publicRepos, 2) - LogRatio(c.publicRepos, 2))) \div 100)

\* user-user: 0.4 LS + 0.4 TS + 0.2 AS, or the 30/30/40 split
UserUserSimilarity(a, c, prof) ==
    IF prof = "40/40/20"
    THEN (40 * Cosine(a.langs, c.langs) + 40 * Jaccard(a.topics, c.topics)
            + 20 * ActivitySimilarity(a, c)) \div 100
    ELSE (30 * Cosine(a.langs, c.langs) + 30 * Jaccard(a.topics, c.topics)
            + 40 * ActivitySimilarity(a, c)) \div 100

\* LM = P(L_main): the share of the user's code in the repository's language
LanguageMatch(u, r) ==
    IF r.mainLang = 0 \/ Dot(u.langs, <<1, 1>>) = 0 THEN 0
    ELSE (u.langs[r.mainLang] * ONE) \div Dot(u.langs, <<1, 1>>)

\* scale_score = 0.7 star + 0.3 fork; factor = 1.2 if active else 0.8;
\* RS = min(1.0, scale_score x factor)
ScaleRecency(r) ==
    Min(ONE,
        (((70 * LogRatio(r.stars, 4) + 30 * LogRatio(r.forks, 3)) \div 100)
            * (IF r.active THEN 120 ELSE 80)) \div 100)

\* user-repository: 0.4 LM + 0.4 TM + 0.2 RS
UserRepoSimilarity(u, r) ==
    (40 * LanguageMatch(u, r) + 40 * Jaccard(u.topics, r.topics)
        + 20 * ScaleRecency(r)) \div 100

\* a buggy variant: the size difference is taken relative to the first size
SizeSimilarityOneSided(a, c) ==
    ONE - (Abs(a.size - c.size) * ONE) \div Max(a.size + a.size, 1)

\* size_similarity = 1 - |size1 - size2| / max(size1 + size2, 1)
SizeSimilarity(a, c) ==
    ONE - (Abs(a.size - c.size) * ONE) \div Max(a.size + c.size, 1)

\* RS = 1 - min(0.6 star_diff + 0.3 fork_diff + 0.1 time_diff, 1)
ScaleRecencySimilarity(a, c) ==
    ONE - Min(ONE,
        (60 * Abs(LogRatio(a.stars, 4) - LogRatio(c.stars, 4))
            + 30 * Abs(LogRatio(a.forks, 3) - LogRatio(c.forks, 3))
            + 10 * ((Abs(a.lastUpdated - c.lastUpdated) * ONE) \div 5)) \div 100)

\* repository-repository: 0.3 language equality + 0.4 topic + 0.3 size, or
\* 0.4 language cosine + 0.3 topic + 0.2 contributor + 0.1 scale-recency
RepoRepoSimilarity(a, c, prof) ==
    IF prof = "30/40/30"
    THEN (30 * (IF a.mainLang = c.mainLang THEN ONE ELSE 0)
            + 40 * Jaccard(a.topics, c.topics)
            + 30 * SizeSimilarity(a, c)) \div 100
    ELSE (40 * Cosine(a.langs, c.langs) + 30 * Jaccard(a.topics, c.topics)
            + 20 * Jaccard(a.contributors, c.contributors)
            + 10 * ScaleRecencySimilarity(a, c)) \div 100

\* the formula depends on the (anchor.kind, candidate.kind) pairing
SimilarityScorer(a, c, prof) ==
    IF a.kind = "user" /\ c.kind = "user" THEN UserUserSimilarity(a, c, prof)
    ELSE IF a.kind = "repo" /\ c.kind = "repo" THEN RepoRepoSimilarity(a, c, prof)
    ELSE IF a.kind = "user" THEN UserRepoSimilarity(a, c)
    ELSE UserRepoSimilarity(c, a)

UserProfiles == {"40/40/20", "30/30/40"}
RepoProfiles == {"30/40/30", "40/30/20/10"}

HighCount == Pow10(MaxExp) - 1

SimUsers ==
    {Entity("user", FALSE, 0, fl, fg, pr, 0, 0, 0, 0, 0, 0, lv, 0, tp, {}, 0, FALSE) :
        fl \in PairCounts, fg \in {0, HighCount}, pr \in {0, HighCount},
        lv \in LangVectors, tp \in TopicSets}

\* the users and repositories of the user-repository pairing
MatchUsers ==
    {Entity("user", FALSE, 0, 0, 0, 0, 0, 0, 0, 0, 0, 0, lv, 0, tp, {}, 0, FALSE) :
        lv \in LangVectors, tp \in TopicSets}

MatchRepos ==
    {Entity("repo", FALSE, 0, 0, 0, 0, 0, 0, st, fk, 0, 0, NoLangs, ml, tp, {}, 0, ac) :
        st \in PairCounts, fk \in PairCounts, ml \in MainLangs, tp \in TopicSets,
        ac \in BOOLEAN}

\* the repositories of the 30/40/30 profile
SizeRepos ==
    {Entity("repo", FALSE, 0, 0, 0, 0, 0, 0, 0, 0, 0, sz, NoLangs, ml, tp, {}, 0, FALSE) :
        sz \in Sizes, ml \in MainLangs, tp \in TopicSets}

\* the repositories of the 40/30/20/10 profile
CosineRepos ==
    {Entity("repo", FALSE, 0, 0, 0, 0, 0, 0, st, fk, 0, 0, lv, 0, tp, ct, lu, FALSE) :
        st \in {0, HighCount}, fk \in {0, HighCount}, lv \in LangVectors,
        tp \in TopicSets, ct \in ContributorSets, lu \in UpdateTimes}

----------------------------------------------------------------------------
(* Partial profiles: an entity together with the set of its metric fields  *)
(* that the provider did not return.                                       *)

MetricFields ==
    {"openRank", "followers", "following", "publicRepos", "repoQuality", "activity",
     "stars", "forks", "watchers", "size", "langs", "mainLang", "topics",
     "contributors", "lastUpdated"}

\* no field absent, one field absent, every field absent
AbsentSets == {{}} \cup {{f} : f \in MetricFields} \cup {MetricFields}

\* the metrics as the scorers read them: an absent field reads as zero (spec 4.1)
ReadMetrics(e, absent) ==
    [f \in DOMAIN e |->
        IF f = "hasOpenRank" THEN e[f] /\ "openRank" \notin absent
        ELSE IF f = "openRank10" THEN (IF "openRank" \in absent THEN 0 ELSE e[f])
        ELSE IF f \in absent THEN NoEntity[f]
        ELSE e[f]]

\* entities with every metric field set
PartialUsers ==
    {Entity("user", TRUE, 25, Pow10(2) - 1, HighCount, HighCount, ONE, ONE \div 2,
            0, 0, 0, 0, <<3, 4>>, 0, tp, {}, 0, FALSE) : tp \in TopicSets \ {{}}}

PartialRepos ==
    {Entity("repo", TRUE, 5, 0, 0, 0, 0, 0, Pow10(2) - 1, Pow10(2) - 1, HighCount,
            Pow10(1) - 1, <<3, 4>>, 1, tp, 1..MaxContributors, 3, TRUE) :
        tp \in TopicSets \ {{}}}

----------------------------------------------------------------------------
(* Names.  A name is a sequence of characters; "a" stands for any          *)
(* character other than the slash.                                         *)

Chars == {"a", "/"}

Names == UNION {[1..n -> Chars] : n \in 0..MaxNameLen}

\* String.prototype.includes / Python's "in" for one character
includes(s, ch) == \E i \in 1..Len(s) : s[i] = ch

\* owner/name: a non-empty owner, one slash, a non-empty name
IsOwnerName(s) ==
    \E i \in 2..(Len(s) - 1) :
        /\ s[i] = "/"
        /\ \A j \in 1..Len(s) : j # i => s[j] # "/"

\* the values a kind parameter can carry: "" is an absent or empty
\* parameter, "org" any value other than user and repo
KindValues == {"", "user", "repo", "org"}

EntityType == {"user", "repo"}

----------------------------------------------------------------------------
(* The metrics provider's snapshot: the entities it knows.                 *)

UserIds == {<<"a">>, <<"a", "a">>}

RepoIds == {<<"a", "/", "a">>, <<"a", "/", "a", "a">>}

Ids(kind) == IF kind = "user" THEN UserIds ELSE RepoIds

\* a further user of the snapshot, of the same scale as the first
ExtraUserIds == {<<"a", "a", "a">>}

WideIds(kind) == IF kind = "user" THEN UserIds \cup ExtraUserIds ELSE RepoIds

Snapshot(id) ==
    IF id = <<"a">>
    THEN Entity("user", TRUE, 25, Pow10(2) - 1, 9, 9, ONE \div 2, ONE \div 2,
                0, 0, 0, 0, <<5, 0>>, 0, {1}, {}, 0, TRUE)
    ELSE IF id = <<"a", "a">>
    THEN Entity("user", TRUE, 100, Pow10(4) - 1, 9, 9, ONE, ONE,
                0, 0, 0, 0, <<3, 4>>, 0, {1}, {}, 0, TRUE)
    ELSE IF id = <<"a", "a", "a">>
    THEN Entity("user", TRUE, 25, Pow10(2) - 1, 9, 9, ONE \div 2, ONE \div 2,
                0, 0, 0, 0, <<3, 4>>, 0, {1}, {}, 0, TRUE)
    ELSE IF id = <<"a", "/", "a">>
    THEN Entity("repo", FALSE, 0, 0, 0, 0, 0, 0,
                9, 0, 0, 9, <<5, 0>>, 1, {1}, {1}, 0, TRUE)
    ELSE Entity("repo", TRUE, 5, 0, 0, 0, 0, 0,
                Pow10(4) - 1, Pow10(3) - 1, 9, 9, <<3, 4>>, 2, {1}, {1}, 0, TRUE)

\* getUser / getRepo: typed metrics or a typed failure
AnchorOutcomes(kind, id) ==
    (IF id \in Ids(kind) THEN {"ok"} ELSE {"NotFound"}) \cup {"RateLimited", "Timeout"}

Tiers == {"Direct", "Topical", "Trending"}

TierOrder == <<"Direct", "Topical", "Trending">>

\* what one source tier can return: up to MaxTierLen ids of the requested kind
TierResults(kind) == UNION {[1..n -> Ids(kind)] : n \in 0..MaxTierLen}

\* the same over the wider snapshot, no candidate listed twice by one tier
WideTierResults(kind) ==
    UNION {{q \in [1..n -> WideIds(kind)] : \A i, j \in 1..n : q[i] = q[j] => i = j} :
            n \in 0..MaxTierLen}

----------------------------------------------------------------------------
(* CandidatePoolBuilder (spec 4.3)                                         *)

Take(s, n) == SubSeq(s, 1, Min(n, Len(s)))

\* the ids of a sequence of ids, as CandidateRefs of tier t
RECURSIVE Refs(_, _, _)
Refs(ids, t, i) ==
    IF i > Len(ids) THEN <<>>
    ELSE <<[id |-> ids[i], sourceTier |-> t]>> \o Refs(ids, t, i + 1)

\* a buggy variant: the sub-pools are joined last tier first
GatheredLastFirst(sp) ==
    Refs(sp["Trending"], "Trending", 1) \o Refs(sp["Topical"], "Topical", 1)
        \o Refs(sp["Direct"], "Direct", 1)

\* the sub-pools joined in tier order, once every tier has answered
Gathered(sp) ==
    Refs(sp["Direct"], "Direct", 1) \o Refs(sp["Topical"], "Topical", 1)
        \o Refs(sp["Trending"], "Trending", 1)

RECURSIVE DedupFrom(_, _, _)
DedupFrom(refs, i, seen) ==
    IF i > Len(refs) THEN <<>>
    ELSE IF refs[i].id \in seen THEN DedupFrom(refs, i + 1, seen)
    ELSE <<refs[i]>> \o DedupFrom(refs, i + 1, seen \cup {refs[i].id})

\* a buggy variant: every reference is kept
KeepAll(refs) == refs

\* de-duplication by id: the first tier to produce an id wins
Dedup(refs) == DedupFrom(refs, 1, {})

BuildPool(sp) == Dedup(Gathered(sp))

\* base_size: 100 for user candidates, 60 for repository candidates
PoolBase(kind) == IF kind = "user" THEN 100 ELSE 60

\* the increment per point of scale: 5 for users, 2 for repositories
PoolIncrement(kind) == IF kind = "user" THEN 5 ELSE 2

\* the upper end of the size range: [100, 200] and [60, 100]
PoolMax(kind) == IF kind = "user" THEN 200 ELSE 100

\* pool_size = base_size + (scale - 20) x increment, within its range
PoolTarget(kind, scale) ==
    Min(PoolMax(kind),
        Max(PoolBase(kind),
            PoolBase(kind) + ((scale - 20 * ONE) * PoolIncrement(kind)) \div ONE))

\* a buggy variant: the pool is not cut to its target size
SizedPoolUncut(kind, scale, sp) == BuildPool(sp)

\* the de-duplicated pool, cut to the target size of the anchor's scale
SizedPool(kind, scale, sp) == Take(BuildPool(sp), PoolTarget(kind, scale))

\* a buggy variant: failed tiers are never told from empty ones
NeverAllFailed(ts) == FALSE

AllTiersFailed(ts) == \A t \in Tiers : ts[t] = "failed"

----------------------------------------------------------------------------
(* Scoring of the pool and NodeStratifier (spec 4.4)                       *)

\* one weight profile per similarity kind
ProfileOf(a, c) ==
    IF a.kind = "repo" /\ c.kind = "repo" THEN "40/30/20/10" ELSE "40/40/20"

\* mentor >= 33, peer [25, 33), floating < 25
NodeTypeOf(scale) ==
    IF scale >= 33 * ONE THEN "mentor"
    ELSE IF scale >= 25 * ONE THEN "peer"
    ELSE "floating"

TierRank(t) == IF t = "Direct" THEN 1 ELSE IF t = "Topical" THEN 2 ELSE 3

AllIds == UserIds \cup ExtraUserIds \cup RepoIds

\* the scale score of every entity of the snapshot
ScaleOf == [id \in AllIds |-> ScaleScorer(Snapshot(id))]

\* the similarity of every (anchor, candidate) pair of the snapshot
SimilarityOf ==
    [a \in AllIds |-> [c \in AllIds |->
        SimilarityScorer(Snapshot(a), Snapshot(c),
                         ProfileOf(Snapshot(a), Snapshot(c)))]]

\* pool member i, scored against the anchor
ScoredAt(anchor, refs, i) ==
    [name |-> refs[i].id, sourceTier |-> refs[i].sourceTier, index |-> i,
     size |-> ScaleOf[refs[i].id],
     similarity |-> IF anchor \in AllIds THEN SimilarityOf[anchor][refs[i].id] ELSE 0,
     nodeType |-> NodeTypeOf(ScaleOf[refs[i].id])]

\* a buggy variant: the lowest similarity comes first
LowestFirst(x, y) ==
    \/ x.similarity < y.similarity
    \/ /\ x.similarity = y.similarity
       /\ x.index < y.index

\* descending similarity, then source-tier priority, then pool order
Before(x, y) ==
    \/ x.similarity > y.similarity
    \/ /\ x.similarity = y.similarity
       /\ \/ TierRank(x.sourceTier) < TierRank(y.sourceTier)
          \/ /\ TierRank(x.sourceTier) = TierRank(y.sourceTier)
             /\ x.index < y.index

RECURSIVE Insert(_, _)
Insert(x, sorted) ==
    IF sorted = <<>> THEN <<x>>
    ELSE IF Before(x, Head(sorted)) THEN <<x>> \o sorted
    ELSE <<Head(sorted)>> \o Insert(x, Tail(sorted))

\* the pool, every member scored against the anchor
ScoredPool(anchor, refs) == [i \in 1..Len(refs) |-> ScoredAt(anchor, refs, i)]

\* the members of one bucket among scored candidates, sorted
RECURSIVE SortBucket(_, _, _)
SortBucket(scored, nodeType, i) ==
    IF i > Len(scored) THEN <<>>
    ELSE IF scored[i].nodeType = nodeType
    THEN Insert(scored[i], SortBucket(scored, nodeType, i + 1))
    ELSE SortBucket(scored, nodeType, i + 1)

\* the members of one bucket of the pool, sorted
BucketFrom(anchor, refs, nodeType, i) ==
    SortBucket(ScoredPool(anchor, refs), nodeType, i)

\* the upper count bound of a bucket, by candidate kind
BucketBound(kind, nodeType) ==
    IF kind = "user"
    THEN (IF nodeType = "mentor" THEN 10 ELSE IF nodeType = "peer" THEN 15 ELSE 20)
    ELSE (IF nodeType = "mentor" THEN 5 ELSE IF nodeType = "peer" THEN 7 ELSE 12)

\* the top entries of one bucket among scored candidates
TopOf(scored, kind, nodeType) ==
    Take(SortBucket(scored, nodeType, 1), BucketBound(kind, nodeType))

\* the top entries of one bucket
Bucket(anchor, refs, kind, nodeType) ==
    TopOf(ScoredPool(anchor, refs), kind, nodeType)

\* a buggy variant: the shuffle draws with replacement, so that it can lose
\* one node and repeat another
ShufflesWithRepeats(s) ==
    {[i \in 1..Len(s) |-> s[f[i]]] : f \in [1..Len(s) -> 1..Len(s)]}

\* the orders a shuffle of s can produce
Shuffles(s) ==
    {[i \in 1..Len(s) |-> s[f[i]]] :
        f \in {g \in [1..Len(s) -> 1..Len(s)] :
                \A i, j \in 1..Len(s) : g[i] = g[j] => i = j}}

\* the selection among scored candidates, bucket after bucket, before the
\* shuffle
SelectedScored(scored, kind) ==
    TopOf(scored, kind, "mentor") \o TopOf(scored, kind, "peer")
        \o TopOf(scored, kind, "floating")

\* the selected nodes, bucket after bucket, before the shuffle
Selected(anchor, refs, kind) == SelectedScored(ScoredPool(anchor, refs), kind)

\* s with the entries at j and k exchanged
Swap(s, j, k) ==
    [i \in 1..Len(s) |-> IF i = j THEN s[k] ELSE IF i = k THEN s[j] ELSE s[i]]

\* some of the orders a shuffle within the buckets can produce: s itself and
\* s with two entries of one bucket exchanged
SwapsWithinBuckets(s) ==
    {s} \cup {Swap(s, p[1], p[2]) :
                p \in {q \in (1..Len(s)) \X (1..Len(s)) :
                        q[1] < q[2] /\ s[q[1]].nodeType = s[q[2]].nodeType}}

\* the selected node lists stratification can return: each bucket shuffled
Stratified(anchor, refs, kind) ==
    {m \o p \o f :
        m \in Shuffles(Bucket(anchor, refs, kind, "mentor")),
        p \in Shuffles(Bucket(anchor, refs, kind, "peer")),
        f \in Shuffles(Bucket(anchor, refs, kind, "floating"))}

----------------------------------------------------------------------------
(* What recommend() returns to the endpoint                                *)

NoOutcome ==
    [ok |-> FALSE, failure |-> "none", errorType |-> "none", size |-> 0,
     recommendations |-> <<>>]

Failure(f, e) ==
    [ok |-> FALSE, failure |-> f, errorType |-> e, size |-> 0,
     recommendations |-> <<>>]

Success(anchor, selected) ==
    [ok |-> TRUE, failure |-> "none", errorType |-> "none",
     size |-> IF anchor \in AllIds THEN ScaleOf[anchor] ELSE 0,
     recommendations |-> selected]

\* a buggy variant: the kind of the anchor failure is lost
AnchorErrorUntyped(kind, o) == "INTERNAL_ERROR"

\* the typed error of a failed anchor fetch
AnchorErrorType(kind, o) ==
    IF o = "NotFound"
    THEN (IF kind = "user" THEN "USER_NOT_FOUND" ELSE "REPO_NOT_FOUND")
    ELSE IF o = "RateLimited" THEN "RATE_LIMIT_ERROR"
    ELSE "INTERNAL_ERROR"

\* a buggy variant: the tiers are fetched whatever the anchor fetch gave
ContinuesAlways(o) == TRUE

\* the pipeline goes on after the anchor fetch only if it succeeded
Continues(o) == o = "ok"

NoCandidatesError(find) ==
    IF find = "user" THEN "USER_RECOMMENDATION_ERROR" ELSE "REPO_RECOMMENDATION_ERROR"

\* a buggy variant: an empty selection is returned as a success
ResultOfAny(anchor, selected) == Success(anchor, selected)

\* an empty final node set surfaces as NoRecommendations
ResultOf(anchor, selected) ==
    IF selected = <<>> THEN Failure("NoRecommendations", "NO_RECOMMENDATIONS")
    ELSE Success(anchor, selected)

----------------------------------------------------------------------------
(* Validation of the handlers: the message of the first failed check, ""   *)
(* when the request passes.                                                 *)

\* handleSearch
SearchError(type, searchTerm) ==
    IF searchTerm = <<>> THEN "empty search"
    ELSE IF type = "repo" /\ ~includes(searchTerm, "/") THEN "repo format"
    ELSE ""

\* a buggy variant: the repository name is not checked by the route
RecommendRouteErrorNoName(type, name, find) ==
    IF type = "" \/ name = <<>> \/ find = "" THEN "missing parameter"
    ELSE IF type \notin {"user", "repo"} THEN "type"
    ELSE IF find \notin {"user", "repo"} THEN "find"
    ELSE ""

\* GET of the recommend route
RecommendRouteError(type, name, find) ==
    IF type = "" \/ name = <<>> \/ find = "" THEN "missing parameter"
    ELSE IF type \notin {"user", "repo"} THEN "type"
    ELSE IF find \notin {"user", "repo"} THEN "find"
    ELSE IF type = "repo" /\ ~includes(name, "/") THEN "repo name"
    ELSE ""

\* get_recommendations
BackendError(type, name, find) ==
    IF type \notin {"user", "repo"} THEN "type"
    ELSE IF find \notin {"user", "repo"} THEN "find"
    ELSE IF type = "repo" /\ ~includes(name, "/") THEN "repo name"
    ELSE ""

\* GET of the analyze route
AnalyzeRouteError(node_a, node_b) ==
    IF node_a = <<>> \/ node_b = <<>> THEN "missing parameter" ELSE ""

\* GET of the explain route
ExplainRouteError(type) == IF type = "" THEN "missing parameter" ELSE ""

----------------------------------------------------------------------------
(* Responses                                                               *)

NoRequest == [entry |-> "none"]

NoResponse ==
    [sent |-> FALSE, success |-> FALSE, nodes |-> <<>>, links |-> <<>>,
     center |-> <<>>, message |-> ""]

\* useState<string>(''): no analysis text, of no click
NoAnalysis == [click |-> 0, graph |-> 0, node |-> "none", text |-> ""]

ErrorResponse(msg) ==
    [sent |-> TRUE, success |-> FALSE, nodes |-> <<>>, links |-> <<>>,
     center |-> <<>>, message |-> msg]

\* a buggy variant: the anchor is emitted as an ordinary node
center_node_as_peer(name, type, out) ==
    [id |-> name, type |-> type, nodeType |-> "peer", size |-> out.size,
     similarity |-> ONE]

\* get_recommendations: the center node
center_node(name, type, out) ==
    [id |-> name, type |-> type, nodeType |-> "center", size |-> out.size,
     similarity |-> ONE]

\* get_recommendations: the node of recommendation i (the first 10 are
\* connected, mentor if the scale is above 30, the rest float)
node(find, item, i) ==
    [id |-> item.name, type |-> find,
     nodeType |-> IF i <= 10
                  THEN (IF item.size > 30 * ONE THEN "mentor" ELSE "peer")
                  ELSE "floating",
     size |-> item.size, similarity |-> item.similarity]

nodes(name, type, find, out) ==
    <<center_node(name, type, out)>>
        \o [i \in 1..Len(out.recommendations) |-> node(find, out.recommendations[i], i)]

\* a buggy variant: every recommendation is linked, the floating ones too
links_all(name, out) ==
    [i \in 1..Len(out.recommendations) |->
        [source |-> name, target |-> out.recommendations[i].name,
         value |-> out.recommendations[i].similarity]]

links(name, out) ==
    [i \in 1..Min(10, Len(out.recommendations)) |->
        [source |-> name, target |-> out.recommendations[i].name,
         value |-> out.recommendations[i].similarity]]

SuccessResponse(name, type, find, out) ==
    [sent |-> TRUE, success |-> TRUE, nodes |-> nodes(name, type, find, out),
     links |-> links(name, out), center |-> <<name, type>>, message |-> ""]

----------------------------------------------------------------------------
(* Scorer bench: one scorer applied once to inputs drawn from the sets     *)
(* above.                                                                   *)

Init ==
    /\ op = "none"
    /\ argA = NoEntity
    /\ argB = NoEntity
    /\ profile = "none"
    /\ result = 0
    /\ pc = "idle"
    /\ req = NoRequest
    /\ calls = {}
    /\ rejectedBy = "none"
    /\ anchorFetch = "none"
    /\ tierStatus = [t \in Tiers |-> "idle"]
    /\ subPool = [t \in Tiers |-> <<>>]
    /\ pool = <<>>
    /\ steps = {}
    /\ outcome = NoOutcome
    /\ response = NoResponse
    /\ loading = FALSE
    /\ error = ""
    /\ graphData = "none"
    /\ cancelled = FALSE
    /\ timer = "none"
    /\ selectedNode = "none"
    /\ started = 0
    /\ searches = {}
    /\ graphOf = 0
    /\ aiAnalysis = NoAnalysis
    /\ isLoading = FALSE
    /\ clicks = 0
    /\ analyses = {}

ComputeScale ==
    /\ op = "none"
    /\ \E e \in ScaleUsers \cup ScaleRepos :
        /\ op' = "scale"
        /\ argA' = e
        /\ result' = ScaleScorer(e)
    /\ UNCHANGED <<viewVars, argB, profile, pipeVars, pageVars, ctlVars>>

Scored(a, c, prof) ==
    /\ op' = "similarity"
    /\ argA' = a
    /\ argB' = c
    /\ profile' = prof
    /\ result' = SimilarityScorer(a, c, prof)

ComputeSimilarity ==
    /\ op = "none"
    /\ UNCHANGED <<viewVars, pipeVars, pageVars, ctlVars>>
    /\ \/ \E a \in SimUsers, c \in SimUsers, prof \in UserProfiles : Scored(a, c, prof)
       \/ \E a \in MatchUsers, c \in MatchRepos : Scored(a, c, "40/40/20")
       \/ \E a \in SizeRepos, c \in SizeRepos : Scored(a, c, "30/40/30")
       \/ \E a \in CosineRepos, c \in CosineRepos : Scored(a, c, "40/30/20/10")

\* the Jaccard coefficient of two topic or contributor sets
ComputeJaccard ==
    /\ op = "none"
    /\ \E A \in TopicSets \cup ContributorSets, B \in TopicSets \cup ContributorSets :
        /\ op' = "jaccard"
        /\ argA' = A
        /\ argB' = B
        /\ result' = Jaccard(A, B)
    /\ UNCHANGED <<viewVars, profile, pipeVars, pageVars, ctlVars>>

\* the cosine similarity of two language vectors
ComputeCosine ==
    /\ op = "none"
    /\ \E v \in LangVectors, w \in LangVectors :
        /\ op' = "cosine"
        /\ argA' = v
        /\ argB' = w
        /\ result' = Cosine(v, w)
    /\ UNCHANGED <<viewVars, profile, pipeVars, pageVars, ctlVars>>

\* the scale of an entity some of whose metric fields are absent
ComputePartialScale ==
    /\ op = "none"
    /\ \E e \in PartialUsers \cup PartialRepos, absent \in AbsentSets :
        /\ op' = "partial scale"
        /\ argA' = e
        /\ argB' = absent
        /\ result' = ScaleScorer(ReadMetrics(e, absent))
    /\ UNCHANGED <<viewVars, profile, pipeVars, pageVars, ctlVars>>

ProfilesOf(a, c) ==
    IF a.kind = "user" /\ c.kind = "user" THEN UserProfiles
    ELSE IF a.kind = "repo" /\ c.kind = "repo" THEN RepoProfiles
    ELSE {"40/40/20"}

\* the similarity of two entities that both lack the same metric fields
ComputePartialSimilarity ==
    /\ op = "none"
    /\ \E a \in PartialUsers \cup PartialRepos, c \in PartialUsers \cup PartialRepos,
          absent \in AbsentSets :
        \E prof \in ProfilesOf(a, c) :
            /\ op' = "partial similarity"
            /\ argA' = <<a, c>>
            /\ argB' = absent
            /\ profile' = prof
            /\ result' = SimilarityScorer(ReadMetrics(a, absent),
                                          ReadMetrics(c, absent), prof)
    /\ UNCHANGED <<viewVars, pipeVars, pageVars, ctlVars>>

\* the tiers of two scores of entities of one kind
ComputeTier ==
    /\ op = "none"
    /\ \E kind \in {"user", "repo"}, s1 \in ScoreGrid, s2 \in ScoreGrid :
        /\ op' = "tier"
        /\ argA' = <<s1, s2>>
        /\ argB' = kind
        /\ result' = <<TierOf(kind, s1), TierOf(kind, s2)>>
    /\ UNCHANGED <<viewVars, profile, pipeVars, pageVars, ctlVars>>

NextScore ==
    \/ ComputeScale
    \/ ComputeTier
    \/ ComputeSimilarity
    \/ ComputeJaccard
    \/ ComputeCosine
    \/ ComputePartialScale
    \/ ComputePartialSimilarity

SpecScore == Init /\ [][NextScore]_vars

----------------------------------------------------------------------------
(* The search page                                                         *)

\* handleSearch up to its await: validation, then fetchRecommendations
handleSearch ==
    /\ pc = "idle"
    /\ \E type \in EntityType, searchTerm \in Names, findType \in EntityType :
        /\ req' = [entry |-> "page", type |-> type, name |-> searchTerm,
                   find |-> findType]
        /\ IF SearchError(type, searchTerm) # ""
           THEN /\ error' = SearchError(type, searchTerm)
                /\ loading' = FALSE
                /\ rejectedBy' = "page"
                /\ calls' = calls
                /\ pc' = "done"
           ELSE /\ error' = ""
                /\ loading' = TRUE
                /\ rejectedBy' = rejectedBy
                /\ calls' = calls \cup {"fetchRecommendations"}
                /\ pc' = "search"
    /\ UNCHANGED <<viewVars, scoreVars, ctlVars, anchorFetch, tierStatus, subPool, pool, steps,
                   outcome, response, graphData>>

\* what fetchRecommendations can give back
SearchResults == {"threw", "unsuccessful", "no data", "success"}

\* handleSearch after its await
handleSearchResume ==
    /\ pc = "search"
    /\ \E r \in SearchResults :
        IF r = "success"
        THEN /\ graphData' = "data"
             /\ error' = error
        ELSE /\ graphData' = graphData
             /\ error' = r
    /\ loading' = FALSE
    /\ pc' = "done"
    /\ UNCHANGED <<viewVars, scoreVars, ctlVars, req, calls, rejectedBy, anchorFetch, tierStatus,
                   subPool, pool, steps, outcome, response>>

----------------------------------------------------------------------------
(* The search page over several searches, with the graph it shows          *)

\* what the user can have typed: nothing, a name, an owner/name
SearchTerms == {<<>>, <<"a">>, <<"a", "/", "a">>}

\* a buggy variant: the search button is never disabled
SearchButtonAlwaysEnabled == FALSE

\* the search button: disabled={loading}
SearchButtonDisabled == loading

\* a buggy variant: a successful search keeps the selected node
SelectedNodeKept(sel) == sel

\* setSelectedNode(null) after a successful search
SelectedNodeReset(sel) == "none"

\* handleSearch, by a click on the search button, up to its await; a failed
\* check is caught and ends the call at once
Home_handleSearch ==
    /\ ~SearchButtonDisabled
    /\ started < MaxSearches
    /\ started' = started + 1
    /\ \E type \in EntityType, searchTerm \in SearchTerms :
        IF SearchError(type, searchTerm) # ""
        THEN /\ error' = SearchError(type, searchTerm)
             /\ loading' = FALSE
             /\ searches' = searches
        ELSE /\ error' = ""
             /\ loading' = TRUE
             /\ searches' = searches \cup {started + 1}
    /\ UNCHANGED <<scoreVars, pipeVars, ctlVars, graphData, selectedNode, graphOf,
                   aiAnalysis, isLoading, clicks, analyses>>

\* handleSearch after its await, for the search numbered n
Home_handleSearchResume ==
    /\ \E n \in searches, r \in SearchResults :
        /\ searches' = searches \ {n}
        /\ IF r = "success"
           THEN /\ graphData' = "data"
                /\ graphOf' = n
                /\ selectedNode' = SelectedNodeReset(selectedNode)
                /\ error' = error
           ELSE /\ graphData' = graphData
                /\ graphOf' = graphOf
                /\ selectedNode' = selectedNode
                /\ error' = r
    /\ loading' = FALSE
    /\ UNCHANGED <<scoreVars, pipeVars, ctlVars, started, aiAnalysis, isLoading, clicks,
                   analyses>>

\* the nodes of the graph shown: the center and two recommendations
GraphNodes == {"center", "n1", "n2"}

\* a click on a node of the graph: onNodeClick(node), then requestAnalysis
\* up to its await unless the node is the center
nodeClick ==
    /\ graphData = "data"
    /\ clicks < MaxClicks
    /\ clicks' = clicks + 1
    /\ \E d \in GraphNodes :
        /\ selectedNode' = d
        /\ IF d # "center"
           THEN /\ isLoading' = TRUE
                /\ aiAnalysis' = NoAnalysis
                /\ analyses' = analyses \cup
                        {[click |-> clicks + 1, graph |-> graphOf, node |-> d]}
           ELSE UNCHANGED <<isLoading, aiAnalysis, analyses>>
    /\ UNCHANGED <<scoreVars, pipeVars, ctlVars, pageVars, started, searches, graphOf>>

\* how the fetch of an analysis can end: result.success with data, another
\* answer, an exception
AnalysisResults == {"analysis", "AI analysis failed", "AI analysis request failed"}

\* requestAnalysis after its await
requestAnalysisResume ==
    /\ \E a \in analyses, r \in AnalysisResults :
        /\ analyses' = analyses \ {a}
        /\ aiAnalysis' = [click |-> a.click, graph |-> a.graph, node |-> a.node,
                          text |-> r]
    /\ isLoading' = FALSE
    /\ UNCHANGED <<scoreVars, pipeVars, ctlVars, pageVars, selectedNode, started, searches,
                   graphOf, clicks>>

NextPage ==
    \/ Home_handleSearch
    \/ Home_handleSearchResume
    \/ nodeClick
    \/ requestAnalysisResume

SpecPage == Init /\ [][NextPage]_vars

----------------------------------------------------------------------------
(* The graph component's error display                                     *)

\* the kinds getErrorMessage has a title for
ErrorKinds ==
    {"RATE_LIMIT_ERROR", "USER_NOT_FOUND", "REPO_NOT_FOUND", "NO_USER_REPOS",
     "NO_LANGUAGE_PREFERENCE", "USER_RECOMMENDATION_ERROR",
     "REPO_RECOMMENDATION_ERROR", "NO_CONTRIBUTORS", "NO_RECOMMENDATIONS",
     "INTERNAL_ERROR"}

\* getErrorMessage(error_type, message).title: errorMessages[error_type], or
\* the title for an unknown error
getErrorMessage(error_type) ==
    IF error_type \in ErrorKinds THEN <<"title of", error_type>>
    ELSE <<"title of", "unknown error">>

\* data.error_type of an answer: undefined ("") when the answer has no such
\* field
error_type(data) == IF "error_type" \in DOMAIN data THEN data.error_type ELSE ""

\* the kind the component's effect passes on: data.error_type || 'INTERNAL_ERROR'
SeenErrorType(data) ==
    IF error_type(data) = "" THEN "INTERNAL_ERROR" ELSE error_type(data)

\* the title the component shows for a failed answer
ShownTitle(data) == getErrorMessage(SeenErrorType(data))

----------------------------------------------------------------------------
(* The proxy routes                                                        *)

\* GET of the recommend route up to its fetch of the backend
RecommendGET ==
    /\ pc = "idle"
    /\ \E type \in KindValues, name \in Names, find \in KindValues :
        /\ req' = [entry |-> "recommend", type |-> type, name |-> name,
                   find |-> find]
        /\ IF RecommendRouteError(type, name, find) # ""
           THEN /\ response' = ErrorResponse(RecommendRouteError(type, name, find))
                /\ rejectedBy' = "route"
                /\ calls' = calls
                /\ pc' = "done"
           ELSE /\ response' = response
                /\ rejectedBy' = rejectedBy
                /\ calls' = calls \cup {"backend"}
                /\ pc' = "backend"
    /\ UNCHANGED <<viewVars, scoreVars, ctlVars, anchorFetch, tierStatus, subPool, pool, steps,
                   outcome, pageVars>>

\* GET of the recommend route: the backend answered
RecommendGETReply ==
    /\ pc = "reply"
    /\ response' = IF response.success THEN response
                   ELSE ErrorResponse(response.message)
    /\ pc' = "done"
    /\ UNCHANGED <<viewVars, scoreVars, ctlVars, req, calls, rejectedBy, anchorFetch, tierStatus,
                   subPool, pool, steps, outcome, pageVars>>

\* GET of the recommend route: the fetch of the backend threw
RecommendGETCatch ==
    /\ pc = "backend"
    /\ req.entry = "recommend"
    /\ response' = ErrorResponse("server error")
    /\ pc' = "done"
    /\ UNCHANGED <<viewVars, scoreVars, ctlVars, req, calls, rejectedBy, anchorFetch, tierStatus,
                   subPool, pool, steps, outcome, pageVars>>

\* the node ids an analysis can be asked for
NodeNames == {<<>>} \cup UserIds \cup RepoIds

\* GET of the analyze route up to its fetch of the backend; one variant of
\* the route arms a 30 s timer that aborts the fetch, the other has none
AnalyzeGET ==
    /\ pc = "idle"
    /\ \E node_a \in NodeNames, node_b \in NodeNames, timed \in BOOLEAN :
        /\ req' = [entry |-> "analyze", node_a |-> node_a, node_b |-> node_b]
        /\ IF AnalyzeRouteError(node_a, node_b) # ""
           THEN /\ response' = ErrorResponse(AnalyzeRouteError(node_a, node_b))
                /\ rejectedBy' = "analyze"
                /\ calls' = calls
                /\ timer' = timer
                /\ pc' = "done"
           ELSE /\ response' = response
                /\ rejectedBy' = rejectedBy
                /\ calls' = calls \cup {"backend"}
                /\ timer' = IF timed THEN "armed" ELSE "none"
                /\ pc' = "proxy"
    /\ UNCHANGED <<viewVars, scoreVars, cancelled, anchorFetch, tierStatus, subPool, pool, steps,
                   outcome, pageVars>>

\* the explanation kinds and modes a request can carry
ExplainTypes == {"", "user", "repo", "org"}

\* GET of the explain route up to its fetch of the backend
ExplainGET ==
    /\ pc = "idle"
    /\ \E type \in ExplainTypes, mode \in {"", "simple"} :
        /\ req' = [entry |-> "explain", explainType |-> type, mode |-> mode]
        /\ IF ExplainRouteError(type) # ""
           THEN /\ response' = ErrorResponse(ExplainRouteError(type))
                /\ rejectedBy' = "explain"
                /\ calls' = calls
                /\ timer' = timer
                /\ pc' = "done"
           ELSE /\ response' = response
                /\ rejectedBy' = rejectedBy
                /\ calls' = calls \cup {"backend"}
                /\ timer' = "armed"
                /\ pc' = "proxy"
    /\ UNCHANGED <<viewVars, scoreVars, cancelled, anchorFetch, tierStatus, subPool, pool, steps,
                   outcome, pageVars>>

\* how the fetch of a proxy route can end
ProxyResults == {"ok", "backend error", "threw"}

\* the message of the exception a failed or aborted fetch throws
ExceptionTexts == {"fetch failed", "This operation was aborted"}

\* the explain route wraps the message twice:
\* `服务器错误: ${error.message}` around `请求失败: ${errorMessage}`
ExplainCatchMessage(e) ==
    IF e = "fetch failed" THEN "server error: request failed: fetch failed"
    ELSE "server error: request failed: This operation was aborted"

\* the message the catch block of a proxy route answers with: the variant
\* of the analyze route without a timer returns error.message itself
CatchMessage(t, e) == IF t = "none" THEN e ELSE ExplainCatchMessage(e)

\* setTimeout(() => controller.abort(), 30000) runs while the fetch is
\* unanswered
TimerFires ==
    /\ pc = "proxy"
    /\ timer = "armed"
    /\ timer' = "fired"
    /\ UNCHANGED <<viewVars, scoreVars, cancelled, pipeVars, pageVars>>

\* a buggy variant: the timer is left as it is when the fetch settles
TimerLeftAlone(t) == t

\* .finally(() => { clearTimeout(timeoutId) }) of the fetch
ClearTimer(t) == IF t = "none" THEN "none" ELSE "cleared"

\* how the fetch settles: an aborted fetch rejects with the abort error
Settlements ==
    IF timer = "fired" THEN {<<"threw", "This operation was aborted">>}
    ELSE {<<r, "fetch failed">> : r \in ProxyResults}

\* GET of the analyze or explain route after its fetch
ProxyReply ==
    /\ pc = "proxy"
    /\ \E st \in Settlements :
        response' = IF st[1] = "ok"
                    THEN [sent |-> TRUE, success |-> TRUE, nodes |-> <<>>,
                          links |-> <<>>, center |-> <<>>, message |-> ""]
                    ELSE IF st[1] = "backend error" THEN ErrorResponse(st[1])
                    ELSE ErrorResponse(CatchMessage(timer, st[2]))
    /\ timer' = ClearTimer(timer)
    /\ pc' = "done"
    /\ UNCHANGED <<viewVars, scoreVars, cancelled, req, calls, rejectedBy, anchorFetch, tierStatus,
                   subPool, pool, steps, outcome, pageVars>>

----------------------------------------------------------------------------
(* The backend endpoint and recommend()                                    *)

\* a request sent to the backend endpoint directly
BackendRequest ==
    /\ pc = "idle"
    /\ \E type \in KindValues, name \in Names, find \in KindValues :
        req' = [entry |-> "backend", type |-> type, name |-> name, find |-> find]
    /\ pc' = "backend"
    /\ UNCHANGED <<viewVars, scoreVars, ctlVars, calls, rejectedBy, anchorFetch, tierStatus, subPool,
                   pool, steps, outcome, response, pageVars>>

\* where the endpoint's response goes
AfterBackend == IF req.entry = "recommend" THEN "reply" ELSE "done"

\* get_recommendations up to its call of recommend(); the HTTPException of a
\* failed check is raised inside the try block, whose handler answers with
\* a server_error
get_recommendations ==
    /\ pc = "backend"
    /\ IF BackendError(req.type, req.name, req.find) # ""
       THEN /\ response' = ErrorResponse("server_error")
            /\ rejectedBy' = "backend"
            /\ pc' = AfterBackend
       ELSE /\ response' = response
            /\ rejectedBy' = rejectedBy
            /\ pc' = "anchor"
    /\ UNCHANGED <<viewVars, scoreVars, ctlVars, req, calls, anchorFetch, tierStatus, subPool, pool,
                   steps, outcome, pageVars>>

\* recommend(): the anchor fetch; on success the three tiers are fetched
\* concurrently, on failure the pipeline stops
FetchAnchor ==
    /\ pc = "anchor"
    /\ \E o \in AnchorOutcomes(req.type, req.name) :
        /\ anchorFetch' = o
        /\ IF Continues(o)
           THEN /\ calls' = calls \cup {"getAnchor"} \cup Tiers
                /\ tierStatus' = [t \in Tiers |-> "pending"]
                /\ outcome' = outcome
                /\ pc' = "tiers"
           ELSE /\ calls' = calls \cup {"getAnchor"}
                /\ tierStatus' = tierStatus
                /\ outcome' = Failure("AnchorFetch", AnchorErrorType(req.type, o))
                /\ pc' = "assemble"
    /\ steps' = steps \cup {"anchor"}
    /\ UNCHANGED <<viewVars, scoreVars, ctlVars, req, rejectedBy, subPool, pool, response, pageVars>>

\* a source tier answers with candidates
TierAnswers(t, results) ==
    /\ pc = "tiers"
    /\ tierStatus[t] = "pending"
    /\ \E ids \in results :
        subPool' = [subPool EXCEPT ![t] = ids]
    /\ tierStatus' = [tierStatus EXCEPT ![t] = "ok"]
    /\ UNCHANGED <<viewVars, scoreVars, ctlVars, pc, req, calls, rejectedBy, anchorFetch, pool, steps,
                   outcome, response, pageVars>>

TierOk(t) == TierAnswers(t, TierResults(req.find))

\* a source tier fails or times out: it contributes an empty sub-pool
TierFail(t) ==
    /\ pc = "tiers"
    /\ tierStatus[t] = "pending"
    /\ subPool' = [subPool EXCEPT ![t] = <<>>]
    /\ tierStatus' = [tierStatus EXCEPT ![t] = "failed"]
    /\ UNCHANGED <<viewVars, scoreVars, ctlVars, pc, req, calls, rejectedBy, anchorFetch, pool, steps,
                   outcome, response, pageVars>>

\* a source tier is answered with a rate-limit response: the call is not
\* issued again and the request ends with RATE_LIMIT_ERROR
TierRateLimited(t) ==
    /\ pc = "tiers"
    /\ tierStatus[t] = "pending"
    /\ tierStatus' = [tierStatus EXCEPT ![t] = "rate limited"]
    /\ outcome' = Failure("RateLimited", AnchorErrorType(req.find, "RateLimited"))
    /\ pc' = "assemble"
    /\ UNCHANGED <<viewVars, scoreVars, ctlVars, req, calls, rejectedBy, anchorFetch, subPool, pool,
                   steps, response, pageVars>>

\* the caller of a recommendation request goes away while recommend() runs:
\* get_recommendations calls recommend(type, name, find, count), a plain
\* call with no cancellation handle, and the recommend route's fetch carries
\* no signal, so nothing of the pipeline changes
CallerDisconnects ==
    /\ pc = "tiers"
    /\ ~cancelled
    /\ cancelled' = TRUE
    /\ UNCHANGED <<viewVars, scoreVars, timer, pipeVars, pageVars>>

\* recommend(): every tier has answered; the pool is built, scored and
\* stratified
BuildAndStratify ==
    /\ pc = "tiers"
    /\ \A t \in Tiers : tierStatus[t] \in {"ok", "failed"}
    /\ IF AllTiersFailed(tierStatus)
       THEN /\ pool' = pool
            /\ steps' = steps \cup {"pool"}
            /\ outcome' = Failure("NoCandidates", NoCandidatesError(req.find))
       ELSE /\ pool' = SizedPool(req.find, ScaleOf[req.name], subPool)
            /\ steps' = steps \cup {"pool", "score", "stratify"}
            /\ \E selected \in Stratified(req.name,
                    SizedPool(req.find, ScaleOf[req.name], subPool), req.find) :
                outcome' = ResultOf(req.name, selected)
    /\ pc' = "assemble"
    /\ UNCHANGED <<viewVars, scoreVars, ctlVars, req, calls, rejectedBy, anchorFetch, tierStatus,
                   subPool, response, pageVars>>

\* get_recommendations after recommend() returned
get_recommendations_return ==
    /\ pc = "assemble"
    /\ response' = IF outcome.ok
                   THEN SuccessResponse(req.name, req.type, req.find, outcome)
                   ELSE ErrorResponse("server_error")
    /\ pc' = AfterBackend
    /\ UNCHANGED <<viewVars, scoreVars, ctlVars, req, calls, rejectedBy, anchorFetch, tierStatus,
                   subPool, pool, steps, outcome, pageVars>>

----------------------------------------------------------------------------
(* The endpoint on an arbitrary answer of recommend(): a list of           *)
(* recommendations in the recommender's order, of any length and scales.  *)

\* the id of recommendation i: i + 1 letters, after "a/" for a repository
RecId(find, i) ==
    (IF find = "repo" THEN <<"a", "/">> ELSE <<>>) \o [j \in 1..(i + 1) |-> "a"]

\* scales below 25, in [25, 30], in (30, 33) and above 33, in turn
RecSize(k) ==
    CASE k % 4 = 0 -> 22 * ONE + ONE \div 2
      [] k % 4 = 1 -> 28 * ONE
      [] k % 4 = 2 -> 31 * ONE
      [] OTHER -> 36 * ONE

\* n recommendations, in descending similarity
Recs(find, n, shift, top) ==
    [i \in 1..n |->
        [name |-> RecId(find, i), size |-> RecSize(i + shift),
         similarity |-> top - i * (ONE \div 100)]]

\* recommend() returned a list to get_recommendations
RecommendReturns ==
    /\ pc = "idle"
    /\ \E type \in EntityType, find \in EntityType, n \in 0..MaxRecs, shift \in 0..3,
          top \in {ONE, ONE \div 2} :
        /\ req' = [entry |-> "backend", type |-> type,
                   name |-> IF type = "user" THEN <<"a">> ELSE <<"a", "/", "a">>,
                   find |-> find]
        /\ outcome' = [ok |-> TRUE, failure |-> "none", errorType |-> "none",
                       size |-> RecSize(shift),
                       recommendations |-> Recs(find, n, shift, top)]
    /\ pc' = "assemble"
    /\ UNCHANGED <<viewVars, scoreVars, ctlVars, calls, rejectedBy, anchorFetch, tierStatus, subPool,
                   pool, steps, response, pageVars>>

----------------------------------------------------------------------------
(* recommend() over the wider snapshot, from the fetched anchor on         *)

\* recommend() has fetched its anchor and starts the three tier fetches
AnchorFetched ==
    /\ pc = "idle"
    /\ \E type \in EntityType, find \in EntityType :
        \E name \in Ids(type) :
            req' = [entry |-> "backend", type |-> type, name |-> name, find |-> find]
    /\ anchorFetch' = "ok"
    /\ calls' = calls \cup {"getAnchor"} \cup Tiers
    /\ tierStatus' = [t \in Tiers |-> "pending"]
    /\ steps' = steps \cup {"anchor"}
    /\ pc' = "tiers"
    /\ UNCHANGED <<viewVars, scoreVars, ctlVars, rejectedBy, subPool, pool, outcome, response, pageVars>>

\* a source tier answers with candidates of the wider snapshot
TierOkWide(t) == TierAnswers(t, WideTierResults(req.find))

NextStratify ==
    \/ AnchorFetched
    \/ \E t \in Tiers : TierOkWide(t)
    \/ \E t \in Tiers : TierFail(t)
    \/ BuildAndStratify

SpecStratify == Init /\ [][NextStratify]_vars

----------------------------------------------------------------------------
(* The pool builder on large sub-pools                                     *)

\* the target size of the pool for an anchor of the given scale
SizePool ==
    /\ op = "none"
    /\ \E kind \in EntityType, scale \in ScoreGrid :
        /\ op' = "pool size"
        /\ argA' = <<kind, scale>>
        /\ result' = PoolTarget(kind, scale)
    /\ UNCHANGED <<viewVars, argB, profile, pipeVars, pageVars, ctlVars>>

\* how many candidates a tier returns: none, some, many
FetchedCounts == {0, MaxFetched \div 2, MaxFetched}

\* the anchor scales the builder is run at
PoolScales == {20 * ONE, 22 * ONE, 40 * ONE}

\* the candidates of a tier: consecutive ids; the last five of a full tier
\* are the first five of the next
Fetched(t, n) == [i \in 1..n |-> (MaxFetched - 5) * (TierRank(t) - 1) + i]

\* the pool built from three sub-pools for an anchor of the given scale
AssemblePool ==
    /\ op = "none"
    /\ \E kind \in EntityType, scale \in PoolScales,
          n \in [Tiers -> FetchedCounts] :
        /\ op' = "pool"
        /\ argA' = <<kind, scale>>
        /\ argB' = n
        /\ result' = PoolTarget(kind, scale)
        /\ pool' = SizedPool(kind, scale, [t \in Tiers |-> Fetched(t, n[t])])
    /\ UNCHANGED <<viewVars, profile, pc, req, calls, rejectedBy, anchorFetch, tierStatus,
                   subPool, steps, outcome, response, pageVars, ctlVars>>

NextPool == SizePool \/ AssemblePool

SpecPool == Init /\ [][NextPool]_vars

----------------------------------------------------------------------------
(* The stratifier on large buckets                                         *)

Buckets == {"mentor", "peer", "floating"}

\* the similarities of the scored candidates
ScoredSims == <<ONE \div 4, ONE \div 2, (3 * ONE) \div 4>>

\* the scale of candidate i: one bucket for all (pat 0, 1, 2) or the three
\* buckets in turn (pat 3)
ScoredSize(pat, i) ==
    CASE (IF pat = 3 THEN i % 3 ELSE pat) = 0 -> 36 * ONE
      [] (IF pat = 3 THEN i % 3 ELSE pat) = 1 -> 28 * ONE
      [] OTHER -> 22 * ONE

\* the pool is joined in tier order: Direct up to n1, Topical up to n2
TierAt(i, n1, n2) ==
    IF i <= n1 THEN "Direct" ELSE IF i <= n2 THEN "Topical" ELSE "Trending"

\* n scored candidates in pool order
ScoredCandidates(n, n1, n2, a, b, pat) ==
    [i \in 1..n |->
        [name |-> i, sourceTier |-> TierAt(i, n1, n2), index |-> i,
         size |-> ScoredSize(pat, i),
         similarity |-> ScoredSims[((i * a + b) % 3) + 1],
         nodeType |-> NodeTypeOf(ScoredSize(pat, i))]]

\* the stratifier selects the top entries of every bucket
SelectTop ==
    /\ op = "none"
    /\ \E kind \in EntityType, n \in 0..MaxScored, a \in 0..2, b \in 0..2, pat \in 0..3 :
        \E n1 \in {0, n \div 3, n} :
            \E n2 \in {n1, (n1 + n) \div 2, n} :
                /\ op' = "select"
                /\ argA' = ScoredCandidates(n, n1, n2, a, b, pat)
                /\ argB' = kind
                /\ result' = [t \in Buckets |->
                                TopOf(ScoredCandidates(n, n1, n2, a, b, pat), kind, t)]
    /\ UNCHANGED <<viewVars, profile, pipeVars, pageVars, ctlVars>>

SpecSelect == Init /\ [][SelectTop]_vars

NextGraph == RecommendReturns \/ get_recommendations_return

SpecGraph == Init /\ [][NextGraph]_vars

\* recommend() returned its selection, shuffled within the buckets, to
\* get_recommendations
RecommendReturnsShuffled ==
    /\ pc = "idle"
    /\ op = "none"
    /\ \E type \in EntityType, find \in EntityType, n \in 0..MaxRecs, b \in 0..2,
          pat \in {1, 3} :
        \E shuffled \in SwapsWithinBuckets(
                SelectedScored(ScoredCandidates(n, n, n, 1, b, pat), find)) :
            /\ req' = [entry |-> "backend", type |-> type,
                       name |-> IF type = "user" THEN <<"a">> ELSE <<"a", "/", "a">>,
                       find |-> find]
            /\ op' = "shuffle"
            /\ argA' = SelectedScored(ScoredCandidates(n, n, n, 1, b, pat), find)
            /\ outcome' = [ok |-> TRUE, failure |-> "none", errorType |-> "none",
                           size |-> RecSize(0), recommendations |-> shuffled]
    /\ pc' = "assemble"
    /\ UNCHANGED <<viewVars, argB, profile, result, ctlVars, calls, rejectedBy, anchorFetch,
                   tierStatus, subPool, pool, steps, response, pageVars>>

NextShuffle == RecommendReturnsShuffled \/ get_recommendations_return

SpecShuffle == Init /\ [][NextShuffle]_vars

Next ==
    \/ handleSearch
    \/ handleSearchResume
    \/ RecommendGET
    \/ RecommendGETReply
    \/ RecommendGETCatch
    \/ AnalyzeGET
    \/ ExplainGET
    \/ TimerFires
    \/ ProxyReply
    \/ BackendRequest
    \/ get_recommendations
    \/ FetchAnchor
    \/ \E t \in Tiers : TierOk(t)
    \/ \E t \in Tiers : TierFail(t)
    \/ \E t \in Tiers : TierRateLimited(t)
    \/ CallerDisconnects
    \/ BuildAndStratify
    \/ get_recommendations_return

Spec == Init /\ [][Next]_vars

SimilarityInRange ==
    op = "similarity" => (0 <= result /\ result <= ONE)

\* counts beyond the log-normalisation bases were compared, and an active
\* repository whose scale score times 1.2 passes 1 was scored
SimilarityWitness ==
    /\ op = "similarity"
    /\ argA.kind = "user"
    /\ argB.kind = "repo"
    /\ argB.active
    /\ argB.stars = HighCount
    /\ LogRatio(argB.stars, 4) > ONE

----------------------------------------------------------------------------
(* The request pipeline                                                    *)

\* the request went through the endpoint and recommend() returned
Returned == pc \in {"assemble", "reply", "done"} /\ steps # {}

FailedTiers == {t \in Tiers : tierStatus[t] = "failed"}

OkTiers == {t \in Tiers : tierStatus[t] = "ok"}

SeqRange(q) == {q[i] : i \in 1..Len(q)}

PoolIds == {pool[i].id : i \in 1..Len(pool)}

\* C3: the node list of a successful response holds no id twice, the
\* center's id included
NodeIdsUnique ==
    response.success =>
        \A i, j \in 1..Len(response.nodes) :
            i # j => response.nodes[i].id # response.nodes[j].id

AllTiersFailedNoCandidates ==
    (Returned /\ FailedTiers = Tiers) =>
        /\ ~outcome.ok
        /\ outcome.failure = "NoCandidates"
        /\ outcome.recommendations = <<>>
        /\ ~response.success
        /\ response.nodes = <<>>

\* the request whose three tiers failed has been answered
AllTiersFailedWitness ==
    /\ pc = "done"
    /\ FailedTiers = Tiers
    /\ anchorFetch = "ok"
    /\ response.sent

RejectedBeforeAnyCall ==
    rejectedBy # "none" =>
        /\ calls = {}
        /\ ~response.success
        /\ steps = {}

\* a repository name without a slash was rejected by the recommend route
RejectedWitness ==
    /\ rejectedBy = "route"
    /\ req.type = "repo"
    /\ req.find = "user"
    /\ req.name = <<"a">>
    /\ response.sent

\* C9: a repository anchor id for which an external call was issued is in
\* owner/name form
RepoAnchorIdWellFormed ==
    (req.entry \in {"page", "recommend", "backend"} /\ req.type = "repo"
        /\ calls # {}) => IsOwnerName(req.name)

\* C10: repository-repository similarity is symmetric under both profiles
RepoRepoSymmetric ==
    (op = "similarity" /\ argA.kind = "repo" /\ argB.kind = "repo")
        => result = SimilarityScorer(argB, argA, profile)

\* two repositories that differ in size, stars and update time were compared
SymmetryWitness ==
    /\ op = "similarity"
    /\ argA.kind = "repo"
    /\ argB.kind = "repo"
    /\ profile = "30/40/30"
    /\ argA.size > argB.size
    /\ argB.size > 0
    /\ result > 0

\* C11: the Jaccard coefficient of two disjoint sets is 0 and that of a set
\* with itself is 1, the empty set included
JaccardDisjointAndSelf ==
    op = "jaccard" =>
        /\ argA \cap argB = {} => result = 0
        /\ argA = argB => result = ONE

\* C11, as it holds: the Jaccard coefficient of two disjoint sets is 0, the
\* empty set included; that of a non-empty set with itself is 1, and that of
\* the empty set with itself is 0
JaccardDisjointAndNonEmptySelf ==
    op = "jaccard" =>
        /\ argA \cap argB = {} => result = 0
        /\ (argA = argB /\ argA # {}) => result = ONE
        /\ (argA = {} /\ argB = {}) => result = 0

\* the coefficient of the empty set with itself was computed
JaccardWitness ==
    /\ op = "jaccard"
    /\ argA = {}
    /\ argB = {}

\* the entity e with each field of the set absent replaced by its zero
ZeroFilled(e, absent) ==
    [e EXCEPT
        !.hasOpenRank = IF "openRank" \in absent THEN FALSE ELSE @,
        !.openRank10 = IF "openRank" \in absent THEN 0 ELSE @,
        !.followers = IF "followers" \in absent THEN 0 ELSE @,
        !.following = IF "following" \in absent THEN 0 ELSE @,
        !.publicRepos = IF "publicRepos" \in absent THEN 0 ELSE @,
        !.repoQuality = IF "repoQuality" \in absent THEN 0 ELSE @,
        !.activity = IF "activity" \in absent THEN 0 ELSE @,
        !.stars = IF "stars" \in absent THEN 0 ELSE @,
        !.forks = IF "forks" \in absent THEN 0 ELSE @,
        !.watchers = IF "watchers" \in absent THEN 0 ELSE @,
        !.size = IF "size" \in absent THEN 0 ELSE @,
        !.langs = IF "langs" \in absent THEN <<0, 0>> ELSE @,
        !.mainLang = IF "mainLang" \in absent THEN 0 ELSE @,
        !.topics = IF "topics" \in absent THEN {} ELSE @,
        !.contributors = IF "contributors" \in absent THEN {} ELSE @,
        !.lastUpdated = IF "lastUpdated" \in absent THEN 0 ELSE @]

TierIsMonotonicPartition ==
    op = "tier" =>
        /\ result[1] = (IF argA[1] < 25 * ONE THEN "novice"
                        ELSE IF argA[1] < 30 * ONE THEN "intermediate"
                        ELSE IF argA[1] < 35 * ONE THEN "advanced"
                        ELSE "expert")
        /\ argA[1] <= argA[2] => TierLevel(result[1]) <= TierLevel(result[2])

\* the user grading table alone, with its half-open ranges, is such a function
UserTierIsMonotonicPartition ==
    (op = "tier" /\ argB = "user") =>
        /\ result[1] = (IF argA[1] < 25 * ONE THEN "novice"
                        ELSE IF argA[1] < 30 * ONE THEN "intermediate"
                        ELSE IF argA[1] < 35 * ONE THEN "advanced"
                        ELSE "expert")
        /\ argA[1] <= argA[2] => TierLevel(result[1]) <= TierLevel(result[2])

\* C14: the nodeType of every node but the center is a function of its
\* scale alone: mentor iff scale >= 33, peer iff 25 <= scale < 33, floating
\* iff scale < 25
NodeTypeByThresholds ==
    response.success =>
        \A i \in 2..Len(response.nodes) :
            response.nodes[i].nodeType =
                (IF response.nodes[i].size >= 33 * ONE THEN "mentor"
                 ELSE IF response.nodes[i].size >= 25 * ONE THEN "peer"
                 ELSE "floating")

\* the nodes of a successful response that are typed center
CenterNodes == {i \in 1..Len(response.nodes) : response.nodes[i].nodeType = "center"}

\* a successful response of the recommendation endpoint
RecommendSucceeded ==
    response.success /\ req.entry \in {"page", "recommend", "backend"}

\* C15: in a successful response exactly one node has nodeType center, and
\* its id is the id of data.center
ExactlyOneCenter ==
    RecommendSucceeded =>
        /\ Cardinality(CenterNodes) = 1
        /\ \A i \in CenterNodes : response.nodes[i].id = response.center[1]

\* a successful response with recommendations, one of them the anchor itself
CenterWitness ==
    /\ response.success
    /\ \E i \in 2..Len(response.nodes) : response.nodes[i].id = response.center[1]

\* the nodes of the response with the given id
NodesWithId(id) == {i \in 1..Len(response.nodes) : response.nodes[i].id = id}

Preselected ==
    Selected(req.name, SizedPool(req.find, ScaleOf[req.name], subPool), req.find)

\* a node as far as membership goes: its id, its type, its similarity
Member(n) == [name |-> n.name, nodeType |-> n.nodeType, similarity |-> n.similarity]

Members(q) == {Member(q[i]) : i \in 1..Len(q)}

RateLimitedTiers == {t \in Tiers : tierStatus[t] = "rate limited"}

ProviderCalls == {"getAnchor"} \cup Tiers

QuotesException(msg) ==
    \E e \in ExceptionTexts : msg = e \/ msg = ExplainCatchMessage(e)

\* C20: the message of an error response is never the text of a caught
\* exception
NoExceptionTextSurfaces ==
    (response.sent /\ ~response.success) => ~QuotesException(response.message)

\* a request that recommend() failed has been answered
FailedAnswered ==
    /\ response.sent
    /\ ~response.success
    /\ req.entry \in {"recommend", "backend"}
    /\ outcome.failure # "none"

\* C21: the error kind of a failed request reaches the consumer unchanged:
\* the kind seen is one of the ten kinds, it is the kind the failure was
\* classified as, and the title shown is the title of that kind
ErrorKindSurfacedUnchanged ==
    FailedAnswered =>
        /\ SeenErrorType(response) \in ErrorKinds
        /\ SeenErrorType(response) = outcome.errorType
        /\ ShownTitle(response) = <<"title of", outcome.errorType>>


\* the provider calls of the request that have not been answered
InFlight == {t \in Tiers : tierStatus[t] = "pending"}

\* C22: once the caller of a request is gone, no provider call of the
\* request is in flight
CancelledStopsProviderCalls == cancelled => InFlight = {}

\* the steps the program takes by itself once a request is under way: a
\* continuation after an await, a settled fetch, the sub-timeout of a
\* provider call
Progress ==
    \/ handleSearchResume
    \/ RecommendGETReply
    \/ ProxyReply
    \/ get_recommendations
    \/ FetchAnchor
    \/ \E t \in Tiers : TierFail(t)
    \/ BuildAndStratify
    \/ get_recommendations_return

\* a source tier answers with at most one candidate
TierOkShort(t) == TierAnswers(t, {ids \in TierResults(req.find) : Len(ids) <= 1})

\* the requests through the page and the routes, the source tiers answering
\* with short lists
NextLive ==
    \/ handleSearch
    \/ handleSearchResume
    \/ RecommendGET
    \/ RecommendGETReply
    \/ RecommendGETCatch
    \/ AnalyzeGET
    \/ ExplainGET
    \/ TimerFires
    \/ ProxyReply
    \/ get_recommendations
    \/ FetchAnchor
    \/ \E t \in Tiers : TierOkShort(t)
    \/ \E t \in Tiers : TierFail(t)
    \/ \E t \in Tiers : TierRateLimited(t)
    \/ BuildAndStratify
    \/ get_recommendations_return

\* the 30 s timer runs when it is due, and the program's own steps are taken
SpecLive == Init /\ [][NextLive]_vars /\ WF_vars(TimerFires) /\ WF_vars(Progress)

\* the request has ended with a success or with a failure that says what
\* went wrong
Terminated ==
    /\ pc = "done"
    /\ IF req.entry = "page"
       THEN ~loading /\ (error # "" \/ graphData # "none")
       ELSE response.sent /\ (response.success \/ response.message # "")

Lists(t, id) == \E i \in 1..Len(subPool[t]) : subPool[t][i] = id

\* the tiers that produced the id
Producers(id) == {t \in Tiers : Lists(t, id)}

\* the pool of the request has been built
PoolBuilt == "stratify" \in steps

CandidatesOf(t) == {i \in 1..Len(argA) : argA[i].nodeType = t}

\* the pool positions of the selected entries of bucket t
SelectedOf(t) == {result[t][k].index : k \in 1..Len(result[t])}

\* a bucket held more candidates than its bound and equal similarities
BoundBindsWitness ==
    /\ op = "select"
    /\ \E t \in Buckets :
        /\ Cardinality(CandidatesOf(t)) > BucketBound(argB, t)
        /\ Len(result[t]) = BucketBound(argB, t)
        /\ \E k \in 1..(Len(result[t]) - 1) :
            /\ result[t][k].similarity = result[t][k + 1].similarity
            /\ result[t][k].sourceTier # result[t][k + 1].sourceTier

\* C25: of every bucket the selected entries are candidates of that bucket,
\* as many as the bucket holds up to its bound, none with a lower similarity
\* than an unselected candidate of the bucket, in descending similarity,
\* equal similarities by tier priority and then by pool order
TopBySimilarityWithinBound ==
    op = "select" =>
        \A t \in Buckets :
            /\ Len(result[t]) <= BucketBound(argB, t)
            /\ Len(result[t]) =
                IF Cardinality(CandidatesOf(t)) < BucketBound(argB, t)
                THEN Cardinality(CandidatesOf(t)) ELSE BucketBound(argB, t)
            /\ SelectedOf(t) \subseteq CandidatesOf(t)
            /\ Cardinality(SelectedOf(t)) = Len(result[t])
            /\ \A k \in 1..Len(result[t]) : result[t][k] = argA[result[t][k].index]
            /\ \A i \in CandidatesOf(t) \ SelectedOf(t) : \A j \in SelectedOf(t) :
                argA[i].similarity <= argA[j].similarity
            /\ \A k \in 1..(Len(result[t]) - 1) :
                \/ result[t][k].similarity > result[t][k + 1].similarity
                \/ /\ result[t][k].similarity = result[t][k + 1].similarity
                   /\ TierRank(result[t][k].sourceTier)
                        <= TierRank(result[t][k + 1].sourceTier)
                   /\ TierRank(result[t][k].sourceTier)
                        = TierRank(result[t][k + 1].sourceTier)
                        => result[t][k].index < result[t][k + 1].index

\* what recommend() would have returned without the shuffle
Unshuffled == [outcome EXCEPT !.recommendations = argA]

Range(q) == {q[i] : i \in 1..Len(q)}

\* C26: the shuffle changes the order alone: the nodes of the response, each
\* with its similarity and nodeType, and its links are those of the
\* selection before the shuffle
ShuffleOnlyPermutes ==
    (RecommendSucceeded /\ op = "shuffle") =>
        /\ Range(response.nodes) = Range(nodes(req.name, req.type, req.find, Unshuffled))
        /\ Range(response.links) = Range(links(req.name, Unshuffled))

\* what the sized pool adds to the base size
Added == result - PoolBase(argA[1])

\* the documented additions of a level: users, then repositories
AddedWithin(lowUsers, highUsers, lowRepos, highRepos) ==
    IF argA[1] = "user" THEN lowUsers <= Added /\ Added <= highUsers
    ELSE lowRepos <= Added /\ Added <= highRepos

\* C27: the pool size base + (scale - 20) x increment keeps the base size
\* for an anchor scale below 25 and adds 25-50 (10-20 for repositories) from
\* 25, 50-75 (20-30) from 30 and 75-100 (30-40) from 35
PoolAdjustmentAsDocumented ==
    op = "pool size" =>
        /\ argA[2] < 25 * ONE => Added = 0
        /\ (25 * ONE <= argA[2] /\ argA[2] < 30 * ONE) => AddedWithin(25, 50, 10, 20)
        /\ (30 * ONE <= argA[2] /\ argA[2] < 35 * ONE) => AddedWithin(50, 75, 20, 30)
        /\ 35 * ONE <= argA[2] => AddedWithin(75, 100, 30, 40)

\* a call of handleSearch ends in this step: at once on a failed check, or
\* after its await
SearchEnds == ~loading' /\ (started' # started \/ searches' # searches)

\* a successful search came after a click and reset the selected node
SelectionResetWitness ==
    /\ ~loading
    /\ started >= 2
    /\ graphOf = started
    /\ clicks > 0
    /\ selectedNode = "none"

\* C28: loading is true exactly while a call of handleSearch is under way;
\* a call that ends in failure sets error and leaves graphData and
\* selectedNode as they were, one that ends in success replaces graphData
\* and sets selectedNode to null
LoadingWhileSearching ==
    /\ [](loading <=> searches # {})
    /\ [][SearchEnds =>
            \/ /\ error' # ""
               /\ graphData' = graphData
               /\ graphOf' = graphOf
               /\ selectedNode' = selectedNode
            \/ /\ error' = ""
               /\ graphData' = "data"
               /\ graphOf' \in searches
               /\ selectedNode' = "none"]_vars

\* the popup of the graph view is rendered
PopupShown == graphData = "data" /\ selectedNode \notin {"none", "center"}

GraphOfLatestSearch ==
    /\ Cardinality(searches) <= 1
    /\ graphData = "data" => graphOf = started

\* a later search failed: the graph of an earlier search is shown
EarlierGraphShownWitness ==
    /\ ~loading
    /\ graphData = "data"
    /\ graphOf < started
    /\ error # ""

\* C30: at most one search is unanswered, none starts while loading is true,
\* and graphData is only ever replaced by the result of the search started
\* last; the graph of an earlier search stays while a later one is
\* unanswered or has failed
OneSearchAtATime ==
    /\ [](/\ Cardinality(searches) <= 1
          /\ searches \subseteq {started}
          /\ graphOf <= started)
    /\ [][started' # started => ~loading]_vars
    /\ [][graphOf' # graphOf => graphOf' = started']_vars


====
